---- MODULE Spec2Model ----
(***************************************************************************)
(* A model of li_yuan_pipeline: the ROC/CE date converters (utils.py), the *)
(* ingestion asset speech_file, the load assets speech_data and            *)
(* speaker_data (defs/assets/legislative.py) and the aggregation asset     *)
(* speech_count (defs/assets/metrics.py).                                  *)
(*                                                                         *)
(* Strings are sequences of one-character strings, so that formatting,     *)
(* splitting, stripping and parsing are computed and never assumed.  A     *)
(* date is a record [year, month, day]; a raised exception is a record     *)
(* [error |-> <exception name>].                                           *)
(***************************************************************************)
EXTENDS Integers, Sequences, FiniteSets, Bags, TLC

VARIABLES
    files,          \* partition -> NoFile or the parquet file written for it
    speech_table,   \* the DuckDB table speech_data: a bag of fact rows
    speaker_table,  \* the DuckDB table speaker_data: a set of rows
    csv,            \* the CSV written by speech_count, a sequence of rows
    lastOp,         \* the asset run that was last executed and how it ended
    loadLog,        \* history: the speaker pairs of each completed speaker_data load
    latest,         \* history: partition -> response of its last completed ingestion
    input,          \* argument of the pure function under study
    output          \* its result

vars == <<files, speech_table, speaker_table, csv, lastOp, loadLog, latest,
          input, output>>

pipelineVars == <<files, speech_table, speaker_table, csv, lastOp, loadLog, latest>>

-----------------------------------------------------------------------------
(* Strings *)

Digits == <<"0", "1", "2", "3", "4", "5", "6", "7", "8", "9">>

IsDigit(c) == \E i \in 1..10 : Digits[i] = c

DigitVal(c) == (CHOOSE i \in 1..10 : Digits[i] = c) - 1

RECURSIVE Dec(_)
\* the decimal digits of a natural number
Dec(n) == IF n < 10 THEN <<Digits[n + 1]>> ELSE Dec(n \div 10) \o <<Digits[(n % 10) + 1]>>

RECURSIVE ZeroPad(_, _)
ZeroPad(s, width) == IF Len(s) >= width THEN s ELSE ZeroPad(<<"0">> \o s, width)

\* Python's format spec "0<width>d": the sign counts towards the width
FormatD(n, width) ==
    IF n >= 0 THEN ZeroPad(Dec(n), width)
    ELSE <<"-">> \o ZeroPad(Dec(-n), width - 1)

RECURSIVE Contains(_, _)
Contains(s, c) == IF s = <<>> THEN FALSE ELSE Head(s) = c \/ Contains(Tail(s), c)

RECURSIVE Split(_, _)
\* str.split(c) for a one-character separator: always at least one part
Split(s, c) ==
    IF s = <<>> THEN << <<>> >>
    ELSE LET rest == Split(Tail(s), c)
         IN  IF Head(s) = c THEN << <<>> >> \o rest
             ELSE << <<Head(s)>> \o Head(rest) >> \o Tail(rest)

RECURSIVE DigitsValue(_, _)
DigitsValue(s, acc) ==
    IF s = <<>> THEN acc ELSE DigitsValue(Tail(s), 10 * acc + DigitVal(Head(s)))

AllDigits(s) == s # <<>> /\ \A i \in 1..Len(s) : IsDigit(s[i])

\* Python's int(str): an optional sign and a non-empty run of digits
IntOk(s) ==
    \/ AllDigits(s)
    \/ s # <<>> /\ Head(s) \in {"-", "+"} /\ AllDigits(Tail(s))

IntVal(s) ==
    IF Head(s) = "-" THEN 0 - DigitsValue(Tail(s), 0)
    ELSE IF Head(s) = "+" THEN DigitsValue(Tail(s), 0)
    ELSE DigitsValue(s, 0)

-----------------------------------------------------------------------------
(* Calendar dates (datetime.date) *)

IsLeap(y) == (y % 4 = 0 /\ y % 100 # 0) \/ y % 400 = 0

DaysInMonth(y, m) ==
    IF m = 2 THEN (IF IsLeap(y) THEN 29 ELSE 28)
    ELSE IF m \in {4, 6, 9, 11} THEN 30 ELSE 31

\* datetime.MINYEAR..datetime.MAXYEAR
ValidDate(y, m, d) ==
    /\ y \in 1..9999
    /\ m \in 1..12
    /\ d \in 1..DaysInMonth(y, m)

Date(y, m, d) == [year |-> y, month |-> m, day |-> d]

Raise(e) == [error |-> e]

IsError(x) == DOMAIN x = {"error"}

\* the constructor date(y, m, d): ValueError on an impossible date
date(y, m, d) == IF ValidDate(y, m, d) THEN Date(y, m, d) ELSE Raise("ValueError")

-----------------------------------------------------------------------------
(* utils.py *)

\* BUG VARIANT: a wrong epoch offset
ce_date_to_roc_string_offset(ce_date, separator) ==
    FormatD(ce_date.year - 1912, 3) \o separator \o FormatD(ce_date.month, 2)
        \o separator \o FormatD(ce_date.day, 2)

\* ce_date is the date value; a "YYYY-MM-DD" string is first parsed (see
\* fromisoformat), a datetime reduced to its date
ce_date_to_roc_string(ce_date, separator) ==
    LET roc_year == ce_date.year - 1911
    IN  FormatD(roc_year, 3) \o separator \o FormatD(ce_date.month, 2)
            \o separator \o FormatD(ce_date.day, 2)

\* the exceptions come in the order the statements run: int(parts[0]), then
\* parts[1] (IndexError when the string has no separator), and so on
roc_string_to_ce_date(roc_date_str) ==
    LET separator == IF Contains(roc_date_str, "/") THEN "/" ELSE "-"
        parts == Split(roc_date_str, separator)
    IN  IF ~IntOk(parts[1]) THEN Raise("ValueError")
        ELSE IF Len(parts) < 2 THEN Raise("IndexError")
        ELSE IF ~IntOk(parts[2]) THEN Raise("ValueError")
        ELSE IF Len(parts) < 3 THEN Raise("IndexError")
        ELSE IF ~IntOk(parts[3]) THEN Raise("ValueError")
        ELSE date(IntVal(parts[1]) + 1911, IntVal(parts[2]), IntVal(parts[3]))

-----------------------------------------------------------------------------
(* The speaker-field expressions of speech_file (polars string functions) *)

Null == <<>>            \* a null cell
Some(n) == <<n>>        \* a non-null integer cell

Whitespace == {" "}     \* what the regex class \s matches in the modelled alphabet

RECURSIVE StripStart(_, _)
StripStart(s, chars) ==
    IF s # <<>> /\ Head(s) \in chars THEN StripStart(Tail(s), chars) ELSE s

RECURSIVE StripEnd(_, _)
StripEnd(s, chars) ==
    IF s # <<>> /\ s[Len(s)] \in chars THEN StripEnd(SubSeq(s, 1, Len(s) - 1), chars)
    ELSE s

\* str.strip_chars(chars): every leading and every trailing character of the set
strip_chars(s, chars) == StripEnd(StripStart(s, chars), chars)

RECURSIVE TakeDigits(_)
TakeDigits(s) ==
    IF s # <<>> /\ IsDigit(Head(s)) THEN <<Head(s)>> \o TakeDigits(Tail(s)) ELSE <<>>

RECURSIVE extract_digits(_)
\* str.extract(r"(\d+)", 1): the first maximal run of digits, Null when there is none
extract_digits(s) ==
    IF s = <<>> THEN Null
    ELSE IF IsDigit(Head(s)) THEN Some(TakeDigits(s))
    ELSE extract_digits(Tail(s))

\* cast(pl.UInt32) is strict: it raises on a value above 4294967295, compared
\* here digit by digit (42949 67295) since the value itself may not be computable
cast_UInt32_raises(cell) ==
    /\ cell # Null
    /\ LET run == StripStart(cell[1], {"0"})
           hi == DigitsValue(SubSeq(run, 1, 5), 0)
           lo == DigitsValue(SubSeq(run, 6, 10), 0)
       IN  \/ Len(run) > 10
           \/ Len(run) = 10 /\ (hi > 42949 \/ (hi = 42949 /\ lo > 67295))

cast_UInt32(cell) == IF cell = Null THEN Null ELSE Some(DigitsValue(cell[1], 0))

RECURSIVE remove_digits(_)
\* str.replace_all(r"\d+", "")
remove_digits(s) ==
    IF s = <<>> THEN <<>>
    ELSE IF IsDigit(Head(s)) THEN remove_digits(Tail(s))
    ELSE <<Head(s)>> \o remove_digits(Tail(s))

RECURSIVE normalize_spaces(_)
\* str.replace_all(r"\s+", " ")
normalize_spaces(s) ==
    IF s = <<>> THEN <<>>
    ELSE IF Head(s) \in Whitespace
         THEN <<" ">> \o normalize_spaces(StripStart(s, Whitespace))
         ELSE <<Head(s)>> \o normalize_spaces(Tail(s))

\* the cleaning as the comment on it words it ("remove trailing commas/spaces",
\* then "trim spaces"): separators are removed at the end only
speakers_clean_as_documented(speakers) ==
    strip_chars(StripEnd(IF speakers = Null THEN <<>> ELSE speakers, {",", " "}), {" "})

\* the column speakers_clean: fill_null(""), strip_chars(", "), strip_chars(" ")
speakers_clean(speakers) ==
    strip_chars(strip_chars(IF speakers = Null THEN <<>> ELSE speakers, {",", " "}), {" "})

\* the columns speaker_id and speaker of one exploded token
speaker_row(speakers_split) ==
    LET speaker == strip_chars(speakers_split, {" "})
    IN  [speaker_id |-> cast_UInt32(extract_digits(speaker)),
         speaker    |-> strip_chars(normalize_spaces(remove_digits(speaker)), {" "})]

\* whether the cast of some token's number raises
explode_raises(speakers) ==
    LET speakers_split == Split(speakers_clean(speakers), ",")
    IN  \E i \in 1..Len(speakers_split) :
            cast_UInt32_raises(extract_digits(strip_chars(speakers_split[i], {" "})))

\* str.split(",") and explode, then the speaker columns: one row per token
explode_speakers(speakers) ==
    LET speakers_split == Split(speakers_clean(speakers), ",")
    IN  [i \in 1..Len(speakers_split) |-> speaker_row(speakers_split[i])]

-----------------------------------------------------------------------------
(* Partitions (defs/partitions.py, defs/assets/constants.py) *)

START_DATE == Date(2023, 1, 1)
END_DATE == Date(2023, 12, 31)

DateLE(a, b) ==
    \/ a.year < b.year
    \/ a.year = b.year /\ a.month < b.month
    \/ a.year = b.year /\ a.month = b.month /\ a.day <= b.day

NextMonth(d) ==
    IF d.month < 12 THEN Date(d.year, d.month + 1, 1) ELSE Date(d.year + 1, 1, 1)

RECURSIVE AddDays(_, _)
\* date + timedelta(days=n): the days left in the month of d are taken whole
AddDays(d, n) ==
    LET left == DaysInMonth(d.year, d.month) - d.day
    IN  IF n <= left THEN Date(d.year, d.month, d.day + n)
        ELSE AddDays(NextMonth(d), n - (left + 1))

\* date.isoformat(): the partition key of a month
isoformat(d) ==
    FormatD(d.year, 4) \o <<"-">> \o FormatD(d.month, 2) \o <<"-">> \o FormatD(d.day, 2)

\* date.fromisoformat / strptime(s, "%Y-%m-%d") on a partition key
fromisoformat(s) ==
    LET parts == Split(s, "-")
    IN  IF Len(parts) # 3 \/ \E i \in 1..Len(parts) : ~AllDigits(parts[i])
        THEN Raise("ValueError")
        ELSE date(IntVal(parts[1]), IntVal(parts[2]), IntVal(parts[3]))

\* MonthlyPartitionsDefinition(start_date, end_date): the months from START_DATE
\* whose whole time window ends no later than END_DATE (the end is exclusive)
MonthStarts ==
    { m \in { Date(y, k, 1) : y \in START_DATE.year..END_DATE.year, k \in 1..12 } :
        DateLE(START_DATE, m) /\ DateLE(NextMonth(m), END_DATE) }

monthly_partitions == { isoformat(m) : m \in MonthStarts }

-----------------------------------------------------------------------------
(* speech_file: the query window *)

\* the request parameters "from" and "to" of speech_file
query_params(partition_date_string) ==
    LET one_month_date == AddDays(fromisoformat(partition_date_string), 31)
    IN  [from |-> ce_date_to_roc_string(fromisoformat(partition_date_string), <<>>),
         to   |-> ce_date_to_roc_string(one_month_date, <<>>)]

\* whether the request selects a meeting held on `day`: the window is
\* [from, to), the end excluded (an inclusive end only widens the window)
InWindow(day, params) ==
    LET roc == DigitsValue(ce_date_to_roc_string(day, <<>>), 0)
    IN  DigitsValue(params.from, 0) <= roc /\ roc < DigitsValue(params.to, 0)

-----------------------------------------------------------------------------
(* Values of the pipeline state *)

NumPartitions == 2

\* The assets other than the query window never look inside a partition key:
\* there a key is written as the string it is.
KeyName ==
    <<"2023-01-01", "2023-02-01", "2023-03-01", "2023-04-01", "2023-05-01", "2023-06-01",
      "2023-07-01", "2023-08-01", "2023-09-01", "2023-10-01", "2023-11-01", "2023-12-01">>

\* the partitions the model runs: the first NumPartitions months
Partitions ==
    { KeyName[m.month] : m \in { x \in MonthStarts : x.month <= NumPartitions } }

NoFile == [exists |-> FALSE, columns |-> {}, rows |-> <<>>]

\* a table that no CREATE TABLE has made yet
NoTable == [exists |-> FALSE, rows |-> EmptyBag]

NoResponse == [raised |-> FALSE, json |-> <<>>]

NoOp == [op |-> "none", partition |-> "", result |-> "none", response |-> NoResponse]

\* the record of one asset run: which asset, on which partition, how it ended
\* and, for speech_file, what the API had answered
Op(name, p, result, response) ==
    [op |-> name, partition |-> p, result |-> result, response |-> response]

RECURSIVE SeqToBag(_)
SeqToBag(rows) ==
    IF rows = <<>> THEN EmptyBag ELSE SetToBag({Head(rows)}) (+) SeqToBag(Tail(rows))

Range(f) == { f[i] : i \in DOMAIN f }

RECURSIVE Flatten(_)
Flatten(ss) == IF ss = <<>> THEN <<>> ELSE Head(ss) \o Flatten(Tail(ss))

-----------------------------------------------------------------------------
(* speech_file (legislative.py): the dataframe *)

\* the exception that rename, map_elements or cast raise on one API record,
\* "" when none does
record_error(rec) ==
    IF ~({"smeeting_date", "speechers"} \subseteq DOMAIN rec) THEN "ColumnNotFoundError"
    ELSE IF IsError(roc_string_to_ce_date(rec.smeeting_date)) THEN "ComputeError"
    ELSE IF explode_raises(rec.speechers) THEN "InvalidOperationError"
    ELSE ""

\* rename, with_columns, split, explode, drop, with_columns on one API record:
\* the rows it becomes
record_rows(rec, partition_date_string) ==
    LET meeting_date == roc_string_to_ce_date(rec.smeeting_date)
        exploded == explode_speakers(rec.speechers)
        kept == DOMAIN rec \ {"smeeting_date", "speechers"}
        columns == kept \cup {"meeting_date", "partition_date", "speaker", "speaker_id"}
    IN  [i \in 1..Len(exploded) |->
            [c \in columns |->
                CASE c = "meeting_date"   -> meeting_date
                  [] c = "partition_date" -> partition_date_string
                  [] c = "speaker"        -> exploded[i].speaker
                  [] c = "speaker_id"     -> exploded[i].speaker_id
                  [] OTHER                -> rec[c]]]

\* the dataframe df of speech_file, or the exception raised while building it
speech_frame(data, partition_date_string) ==
    LET per == [i \in 1..Len(data) |-> record_rows(data[i], partition_date_string)]
    IN  IF \E i \in 1..Len(data) : record_error(data[i]) # ""
        THEN Raise(record_error(data[CHOOSE i \in 1..Len(data) : record_error(data[i]) # ""]))
        ELSE [exists  |-> TRUE,
              columns |-> DOMAIN per[1][1],
              rows    |-> Flatten(per)]

-----------------------------------------------------------------------------
(* Inputs: what the API answers *)

\* what li_yuan_api.get gives: the decoded JSON list, or an exception
\* (raise_for_status, a failed request, malformed JSON)
ApiOk(json) == [raised |-> FALSE, json |-> json]
ApiFail == [raised |-> TRUE, json |-> <<>>]

\* an API record with every field the pipeline reads
Rec(smeeting_date, speechers, meeting_name) ==
    [smeeting_date   |-> smeeting_date,
     speechers       |-> speechers,
     meeting_status  |-> "s",
     meeting_name    |-> meeting_name,
     meeting_content |-> "c",
     meeting_unit    |-> "u"]

\* the same record from an API that stopped sending meeting_status
Drifted(rec) == [c \in DOMAIN rec \ {"meeting_status"} |-> rec[c]]

SampleDate == <<"1", "1", "2", "/", "0", "1", "/", "0", "5">>

\* "a1, u," : speaker 1 named a, and a speaker without a number
ResponseA == ApiOk(<< Rec(SampleDate, <<"a", "1", ",", " ", "u", ",">>, "m1") >>)

\* "b1,c2" and "c2" : speaker 1 now named b; speaker 2 speaks twice
ResponseB ==
    ApiOk(<< Rec(SampleDate, <<"b", "1", ",", "c", "2">>, "m1"),
             Rec(SampleDate, <<"c", "2">>, "m1") >>)

\* "a1,b 1" : two spellings of speaker 1 in one month
ResponseC == ApiOk(<< Rec(SampleDate, <<"a", "1", ",", "b", " ", "1">>, "m1") >>)

ResponseDrifted == ApiOk(<< Drifted(ResponseA.json[1]) >>)

ResponseEmpty == ApiOk(<<>>)

Responses == {ResponseA, ResponseB, ResponseDrifted, ResponseEmpty, ApiFail}

SpeakerResponses == {ResponseA, ResponseB, ResponseC, ResponseEmpty}

\* speech_frame, tabulated once over the inputs of the model
Frames ==
    [response \in (Responses \cup SpeakerResponses) \ {ApiFail, ResponseEmpty},
     p \in Partitions |-> speech_frame(response.json, p)]

-----------------------------------------------------------------------------
(* speech_file (legislative.py): the asset *)

\* BUG VARIANT: an empty response overwrites the partition file with no rows
write_on_empty_truncating(old, partition_date_string) ==
    [exists |-> TRUE, columns |-> {}, rows |-> <<>>]

\* what an empty response leaves of the partition file: the early return
\* writes nothing
write_on_empty(old, partition_date_string) == old

\* One run of the asset for partition p on the API outcome `response`.
speech_file(partition_date_string, response) ==
    /\ IF response.raised
       THEN /\ files' = files
            /\ lastOp' = Op("speech_file", partition_date_string, "error", response)
       ELSE LET data == response.json IN
            IF Len(data) = 0
       THEN /\ files' = [files EXCEPT ![partition_date_string] =
                            write_on_empty(@, partition_date_string)]
            /\ lastOp' = Op("speech_file", partition_date_string, "no_data", response)
       ELSE LET df == Frames[response, partition_date_string]
            IN  IF IsError(df)
                THEN /\ files' = files
                     /\ lastOp' = Op("speech_file", partition_date_string, "error", response)
                ELSE /\ files' = [files EXCEPT ![partition_date_string] = df]
                     /\ lastOp' = Op("speech_file", partition_date_string, "written", response)
    /\ UNCHANGED <<speech_table, speaker_table, csv>>

-----------------------------------------------------------------------------
(* speech_data (legislative.py) *)

expected_cols ==
    <<"meeting_date", "meeting_status", "meeting_name", "meeting_content",
      "meeting_unit", "speaker_id", "partition_date">>

\* df.select(expected_cols)
select(rows, cols) == [i \in 1..Len(rows) |-> [c \in Range(cols) |-> rows[i][c]]]

CreateTableIfNotExists(table) == [exists |-> TRUE, rows |-> table.rows]

\* the restriction of a bag to the rows of the set kept
BagFilter(bag, kept) == [r \in DOMAIN bag \cap kept |-> bag[r]]

\* BUG VARIANT: the partition's rows are not deleted before the insert
DeletePartition_skipped(rows, partition_date_string) == rows

\* DELETE FROM speech_data WHERE partition_date = '<partition>'
DeletePartition(rows, partition_date_string) ==
    BagFilter(rows, { r \in DOMAIN rows : r.partition_date # partition_date_string })

\* BUG VARIANT: the partition is cleared before the columns are validated
cleared_on_invalid(table, partition_date_string) ==
    [exists |-> TRUE, rows |-> DeletePartition(table.rows, partition_date_string)]

\* the table after a load that raised on missing columns: the check comes
\* before the connection is opened
table_on_invalid(table, partition_date_string) == table

\* One run of the asset for partition p.  (The speaker numbers of the model stay
\* far below the range of the INTEGER column, so the INSERT does not raise.)
speech_data(partition_date_string) ==
    LET file == files[partition_date_string]
        missing == { c \in Range(expected_cols) : c \notin file.columns }
    IN
    /\ IF ~file.exists
       THEN /\ speech_table' = speech_table
            /\ lastOp' = Op("speech_data", partition_date_string, "no_file", NoResponse)
       ELSE IF missing # {}
       THEN /\ speech_table' = table_on_invalid(speech_table, partition_date_string)
            /\ lastOp' = Op("speech_data", partition_date_string, "error", NoResponse)
       ELSE LET df == select(file.rows, expected_cols)
                cleared == DeletePartition(CreateTableIfNotExists(speech_table).rows,
                                           partition_date_string)
            IN  /\ speech_table' = [exists |-> TRUE, rows |-> cleared (+) SeqToBag(df)]
                /\ lastOp' = Op("speech_data", partition_date_string, "loaded", NoResponse)
    /\ UNCHANGED <<files, speaker_table, csv>>

-----------------------------------------------------------------------------
(* speaker_data (legislative.py) *)

\* BUG VARIANT: the rows without a speaker_id are kept
drop_nulls_skipped(df) == df

\* df.drop_nulls(subset=["speaker_id"])
drop_nulls(df) == { r \in df : r.speaker_id # Null }

\* df.select([speaker_id, speaker]).unique(), then drop_nulls
unique_speakers(rows) ==
    drop_nulls({ [speaker_id |-> rows[i].speaker_id, speaker |-> rows[i].speaker] :
                    i \in 1..Len(rows) })

SpeakerIds(rows) == { r.speaker_id : r \in rows }

\* BUG VARIANT: ON CONFLICT DO NOTHING, the stored name is kept
Upsert_do_nothing(rows, batch) ==
    rows \cup { b \in batch : b.speaker_id \notin SpeakerIds(rows) }

\* INSERT ... ON CONFLICT (speaker_id) DO UPDATE SET speaker = EXCLUDED.speaker,
\* for a batch that holds each speaker_id once
Upsert(rows, batch) ==
    { r \in rows : r.speaker_id \notin SpeakerIds(batch) } \cup batch

\* the ways of keeping one row of the batch per speaker_id
OnePerId(df) ==
    { b \in SUBSET df :
        /\ SpeakerIds(b) = SpeakerIds(df)
        /\ \A x, y \in b : x.speaker_id = y.speaker_id => x = y }

\* What the INSERT can do.  A batch that holds a speaker_id twice (two
\* spellings of one speaker in a month) is beyond what the statement defines
\* for every DuckDB release: it is rejected, or one of the rows wins (unique()
\* fixes no order).
UpsertOutcomes(rows, df) ==
    IF OnePerId(df) = {df}
    THEN { [raised |-> FALSE, rows |-> Upsert(rows, df)] }
    ELSE { [raised |-> TRUE, rows |-> rows] }
            \cup { [raised |-> FALSE, rows |-> Upsert(rows, b)] : b \in OnePerId(df) }

\* One run of the asset for partition p.
speaker_data(partition_date_string) ==
    LET file == files[partition_date_string]
    IN
    /\ IF ~file.exists
       THEN /\ speaker_table' = speaker_table
            /\ lastOp' = Op("speaker_data", partition_date_string, "no_file", NoResponse)
       ELSE IF ~({"speaker_id", "speaker"} \subseteq file.columns)
       THEN /\ speaker_table' = speaker_table
            /\ lastOp' = Op("speaker_data", partition_date_string, "error", NoResponse)
       ELSE LET df == unique_speakers(file.rows)
            IN  IF df = {}
                THEN /\ speaker_table' = speaker_table
                     /\ lastOp' = Op("speaker_data", partition_date_string, "no_speakers",
                                     NoResponse)
                ELSE \E outcome \in
                        UpsertOutcomes(CreateTableIfNotExists(speaker_table).rows, df) :
                        /\ speaker_table' = [exists |-> TRUE, rows |-> outcome.rows]
                        /\ lastOp' = Op("speaker_data", partition_date_string,
                                        IF outcome.raised THEN "error" ELSE "loaded",
                                        NoResponse)
    /\ UNCHANGED <<files, speech_table, csv>>

-----------------------------------------------------------------------------
(* speech_count (metrics.py) *)

RECURSIVE SumOver(_, _)
SumOver(S, f) ==
    IF S = {} THEN 0
    ELSE LET x == CHOOSE y \in S : TRUE IN f[x] + SumOver(S \ {x}, f)

\* FROM speech_data AS d JOIN speaker_data AS s ON d.speaker_id = s.speaker_id:
\* the fact rows (a bag) that join the speaker row s
Joined(facts, s) ==
    BagFilter(facts, { d \in DOMAIN facts :
                          d.speaker_id # Null /\ d.speaker_id = s.speaker_id })

\* GROUP BY s.speaker with COUNT(*): one row per display name that joins
GroupCount(facts, speakers) ==
    LET count == [s \in speakers |-> BagCardinality(Joined(facts, s))]
        names == { s.speaker : s \in { x \in speakers : count[x] > 0 } }
    IN  { [speaker      |-> n,
           speech_count |-> SumOver({ s \in speakers : s.speaker = n }, count)] :
          n \in names }

\* BUG VARIANT: ORDER BY speech_count ASC
OrderedBy_asc(rows) ==
    \A i \in 1..(Len(rows) - 1) : rows[i].speech_count <= rows[i + 1].speech_count

\* ORDER BY speech_count DESC; ties come in any order
OrderedBy(rows) ==
    \A i \in 1..(Len(rows) - 1) : rows[i].speech_count >= rows[i + 1].speech_count

\* the sequences that list every element of S once
Listings(S) ==
    { q \in [1..Cardinality(S) -> S] : \A i, j \in DOMAIN q : q[i] = q[j] => i = j }

\* One run of the asset: the query, then write_csv.
speech_count ==
    /\ IF ~speech_table.exists \/ ~speaker_table.exists
       THEN /\ csv' = csv
            /\ lastOp' = Op("speech_count", <<>>, "error", NoResponse)
       ELSE \E df \in Listings(GroupCount(speech_table.rows, speaker_table.rows)) :
                /\ OrderedBy(df)
                /\ csv' = [exists |-> TRUE, columns |-> {"speaker", "speech_count"},
                           rows |-> df]
                /\ lastOp' = Op("speech_count", <<>>, "written", NoResponse)
    /\ UNCHANGED <<files, speech_table, speaker_table>>

-----------------------------------------------------------------------------
(* The pipeline: any asset may be run on any partition at any time *)

NotIngested == [ingested |-> FALSE, response |-> NoResponse]

NoOutput == [done |-> FALSE, value |-> <<>>]

PipelineInit ==
    /\ files = [p \in Partitions |-> NoFile]
    /\ speech_table = NoTable
    /\ speaker_table = [exists |-> FALSE, rows |-> {}]
    /\ csv = NoFile
    /\ lastOp = NoOp
    /\ loadLog = <<>>
    /\ latest = [p \in Partitions |-> NotIngested]

Init == PipelineInit /\ input = <<>> /\ output = NoOutput

Ingest ==
    \E p \in Partitions, response \in Responses :
        /\ speech_file(p, response)
        /\ UNCHANGED <<loadLog, latest, input, output>>

LoadFacts ==
    \E p \in Partitions :
        /\ speech_data(p)
        /\ UNCHANGED <<loadLog, latest, input, output>>

LoadSpeakers ==
    \E p \in Partitions :
        /\ speaker_data(p)
        /\ UNCHANGED <<loadLog, latest, input, output>>

Next == Ingest \/ LoadFacts \/ LoadSpeakers

Spec == Init /\ [][Next]_vars

-----------------------------------------------------------------------------
(* The speaker dimension with the history of its loads *)

MaxLoads == 2

\* the (speaker_id, speaker) pairs of a partition file, nulls included
FilePairs(file) ==
    { [speaker_id |-> file.rows[i].speaker_id, speaker |-> file.rows[i].speaker] :
        i \in 1..Len(file.rows) }

IngestSpeakers ==
    \E p \in Partitions, response \in SpeakerResponses :
        /\ speech_file(p, response)
        /\ UNCHANGED <<loadLog, latest, input, output>>

LoadSpeakersLogged ==
    /\ Len(loadLog) < MaxLoads
    /\ \E p \in Partitions :
        /\ speaker_data(p)
        /\ loadLog' = IF lastOp'.result \in {"loaded", "no_speakers"}
                      THEN Append(loadLog, FilePairs(files[p]))
                      ELSE loadLog
        /\ UNCHANGED <<latest, input, output>>

NextSpeakers == IngestSpeakers \/ LoadSpeakersLogged

SpecSpeakers == Init /\ [][NextSpeakers]_vars

-----------------------------------------------------------------------------
(* Ingestion and fact load with the history of the ingestions *)

IngestLatest ==
    \E p \in Partitions, response \in Responses :
        /\ speech_file(p, response)
        /\ latest' = IF lastOp'.result \in {"written", "no_data"}
                     THEN [latest EXCEPT ![p] = [ingested |-> TRUE, response |-> response]]
                     ELSE latest
        /\ UNCHANGED <<loadLog, input, output>>

NextLatest == IngestLatest \/ LoadFacts

SpecLatest == Init /\ [][NextLatest]_vars

-----------------------------------------------------------------------------
(* speech_count over every content of the two tables *)

MaxFacts == 3
MaxSpeakerId == 3

Names == { <<"A">>, <<"B">> }

\* a fact row of the speaker `id`
FactRow(id) ==
    [c \in Range(expected_cols) |->
        CASE c = "meeting_date"   -> Date(2023, 1, 5)
          [] c = "partition_date" -> KeyName[1]
          [] c = "speaker_id"     -> id
          [] OTHER                -> "x"]

FactIds == {Null} \cup { Some(n) : n \in 1..MaxSpeakerId }

\* the fact tables of at most MaxFacts rows
FactTables ==
    { [exists |-> TRUE,
       rows   |-> [r \in { FactRow(id) : id \in { x \in FactIds : n[x] > 0 } }
                     |-> n[r.speaker_id]]] :
      n \in { f \in [FactIds -> 0..MaxFacts] : SumOver(FactIds, f) <= MaxFacts } }

\* the dimension tables: speaker_id is the primary key, so it is unique and not null
SpeakerTables ==
    { [exists |-> TRUE,
       rows   |-> { [speaker_id |-> Some(n), speaker |-> name[n]] : n \in DOMAIN name }] :
      name \in UNION { [D -> Names] : D \in SUBSET (1..MaxSpeakerId) } }

InitCount ==
    /\ files = [p \in Partitions |-> NoFile]
    /\ speech_table \in FactTables
    /\ speaker_table \in SpeakerTables
    /\ csv = NoFile
    /\ lastOp = NoOp
    /\ loadLog = <<>>
    /\ latest = [p \in Partitions |-> NotIngested]
    /\ input = <<>>
    /\ output = NoOutput

Count == speech_count /\ UNCHANGED <<loadLog, latest, input, output>>

SpecCount == InitCount /\ [][Count]_vars

-----------------------------------------------------------------------------
(* The date converters on their own *)

SampleYears == {1912, 2023, 2024, 2911}

SampleDates ==
    { Date(y, m, d) : y \in SampleYears, m \in 1..12, d \in 1..31 } \cap
    { x \in [year : SampleYears, month : 1..12, day : 1..31] :
        ValidDate(x.year, x.month, x.day) }

Separators == { <<"/">>, <<"-">>, <<>>, <<".">> }

InitDate ==
    /\ PipelineInit
    /\ input \in [ce_date : SampleDates, separator : Separators]
    /\ output = NoOutput

DateToRoc ==
    /\ ~output.done
    /\ output.value = <<>>
    /\ output' = [done  |-> FALSE,
                  value |-> <<ce_date_to_roc_string(input.ce_date, input.separator)>>]
    /\ UNCHANGED <<pipelineVars, input>>

RocToDate ==
    /\ ~output.done
    /\ Len(output.value) = 1
    /\ output' = [done  |-> TRUE,
                  value |-> Append(output.value, roc_string_to_ce_date(output.value[1]))]
    /\ UNCHANGED <<pipelineVars, input>>

NextDate == DateToRoc \/ RocToDate

SpecDate == InitDate /\ [][NextDate]_vars

-----------------------------------------------------------------------------
(* The speaker field on its own *)

MaxLen == 5

Alphabet == {"a", "1", "2", ",", " "}

\* "a1, b2,  " : the shape of the documented example, two speakers and a tail
ExampleField == <<"a", "1", ",", " ", "b", "2", ",", " ", " ">>

SpeakerFields == UNION { [1..k -> Alphabet] : k \in 0..MaxLen } \cup {ExampleField}

InitParse ==
    /\ PipelineInit
    /\ input \in SpeakerFields
    /\ output = NoOutput

Explode ==
    /\ ~output.done
    /\ ~explode_raises(input)
    /\ output' = [done |-> TRUE, value |-> explode_speakers(input)]
    /\ UNCHANGED <<pipelineVars, input>>

SpecParse == InitParse /\ [][Explode]_vars

-----------------------------------------------------------------------------
(* The query windows on their own *)

\* the days a meeting can be held on: 2023 and the month after it
Days ==
    { x \in [year : {2023, 2024}, month : 1..12, day : 1..31] :
        /\ ValidDate(x.year, x.month, x.day)
        /\ DateLE(x, Date(2024, 1, 31)) }

InitWindow ==
    /\ PipelineInit
    /\ input \in Days
    /\ output = [done |-> FALSE, value |-> {}]

\* The request of one partition run: output.value collects the partitions whose
\* request selects a meeting held on the day `input`.
Request ==
    \E p \in monthly_partitions :
        /\ output' = [done  |-> TRUE,
                      value |-> output.value \cup
                                (IF InWindow(input, query_params(p)) THEN {p} ELSE {})]
        /\ UNCHANGED <<pipelineVars, input>>

SpecWindow == InitWindow /\ [][Request]_vars

-----------------------------------------------------------------------------
(* Properties *)

PartitionRows(bag, p) == BagFilter(bag, { r \in DOMAIN bag : r.partition_date = p })

CountIn(rows, r) == Cardinality({ i \in DOMAIN rows : rows[i] = r })

\* C1: a completed speech_data load of partition p leaves the table equal to the
\* prior rows of the other partitions, unchanged, plus exactly the rows of p's
\* file: the rows of p number what the file holds, and a second load of the
\* same file changes nothing.
C1_LoadReplacesPartition ==
    [][ (lastOp'.op = "speech_data" /\ lastOp'.result = "loaded") =>
        LET p == lastOp'.partition
            df == select(files[p].rows, expected_cols)
            old == speech_table.rows
            new == speech_table'.rows
        IN  /\ \A r \in DOMAIN old \cup DOMAIN new \cup Range(df) :
                 CopiesIn(r, new) =
                    (IF r.partition_date = p THEN 0 ELSE CopiesIn(r, old)) + CountIn(df, r)
            /\ BagCardinality(PartitionRows(new, p)) = Len(files[p].rows)
            /\ (lastOp.op = "speech_data" /\ lastOp.result = "loaded" /\ lastOp.partition = p)
                 => speech_table' = speech_table
      ]_vars

\* C1 witness: a load has completed next to rows of another partition, and the
\* loaded partition holds one row twice
C1_Witness ==
    /\ lastOp.op = "speech_data" /\ lastOp.result = "loaded"
    /\ \E r \in DOMAIN speech_table.rows : r.partition_date # lastOp.partition
    /\ \E r \in DOMAIN speech_table.rows :
          r.partition_date = lastOp.partition /\ speech_table.rows[r] = 2

LoggedIds == { r.speaker_id : r \in UNION Range(loadLog) } \ {Null}

\* the last completed load whose file held the speaker id
LastWith(id) ==
    CHOOSE i \in DOMAIN loadLog :
        /\ id \in SpeakerIds(loadLog[i])
        /\ \A j \in DOMAIN loadLog : id \in SpeakerIds(loadLog[j]) => j <= i

\* C2: after any sequence of speaker_data loads the table holds exactly one row
\* for each non-null speaker_id of a loaded file and no other row, and the row's
\* name is one the last loaded file with that id gives it (so a new name
\* overwrites in place and adds no row).
C2_OneRowLatestName ==
    /\ \A id \in LoggedIds :
          LET rows == { s \in speaker_table.rows : s.speaker_id = id }
          IN  /\ Cardinality(rows) = 1
              /\ \A s \in rows : s \in loadLog[LastWith(id)]
    /\ \A s \in speaker_table.rows : s.speaker_id \in LoggedIds
    /\ Cardinality(speaker_table.rows) = Cardinality(LoggedIds)

\* C2 witness: speaker 1 was loaded as "a", then as "b" only, and is stored as "b"
C2_Witness ==
    /\ Len(loadLog) = 2
    /\ [speaker_id |-> Some(1), speaker |-> <<"a">>] \in loadLog[1]
    /\ [speaker_id |-> Some(1), speaker |-> <<"b">>] \in loadLog[2]
    /\ [speaker_id |-> Some(1), speaker |-> <<"a">>] \notin loadLog[2]
    /\ [speaker_id |-> Some(1), speaker |-> <<"b">>] \in speaker_table.rows
    /\ lastOp.op = "speaker_data" /\ lastOp.result = "loaded"

NullRowsOf(rows) == Cardinality({ i \in DOMAIN rows : rows[i].speaker_id = Null })

\* C3: no row of speaker_data has a null speaker_id, while a completed
\* speech_data load keeps every null-speaker row of the partition file in the
\* fact table.
C3_NullSpeakers ==
    /\ \A s \in speaker_table.rows : s.speaker_id # Null
    /\ (lastOp.op = "speech_data" /\ lastOp.result = "loaded") =>
          LET p == lastOp.partition
              rows == PartitionRows(speech_table.rows, p)
          IN  BagCardinality(BagFilter(rows, { r \in DOMAIN rows : r.speaker_id = Null }))
                = NullRowsOf(files[p].rows)

\* C3 witness: both loads ran on a file with a speaker without number; the fact
\* table holds its row, the dimension holds the numbered speaker only
C3_Witness ==
    /\ lastOp.op = "speaker_data" /\ lastOp.result = "loaded"
    /\ NullRowsOf(files[lastOp.partition].rows) > 0
    /\ \E r \in DOMAIN speech_table.rows :
          r.partition_date = lastOp.partition /\ r.speaker_id = Null
    /\ speaker_table.rows # {}

\* the rows the documentation of the ingestion describes for a raw speaker
\* field: whitespace and trailing separators stripped, split on ",", one row
\* per token
DocumentedRows(speakers) ==
    LET tokens == Split(speakers_clean_as_documented(speakers), ",")
    IN  [i \in 1..Len(tokens) |-> speaker_row(tokens[i])]

\* C4: the rows of a raw speaker field are those of its tokens, the field
\* cleaned of whitespace and of trailing separators and split on ",": the id is
\* the token's first run of digits (null without one), the name the token
\* without digits, whitespace collapsed and trimmed.
C4_RowPerToken == output.done => output.value = DocumentedRows(input)

C6_MissingColumnsFailFast ==
    [][ ( /\ lastOp'.op = "speech_data"
          /\ files[lastOp'.partition].exists
          /\ ~(Range(expected_cols) \subseteq files[lastOp'.partition].columns) )
        => (lastOp'.result = "error" /\ speech_table' = speech_table)
      ]_vars

\* C6 witness: the load failed on a file without meeting_status while the table
\* held rows of that partition from an earlier load
C6_Witness ==
    /\ lastOp.op = "speech_data" /\ lastOp.result = "error"
    /\ "meeting_status" \notin files[lastOp.partition].columns
    /\ BagCardinality(PartitionRows(speech_table.rows, lastOp.partition)) > 0

\* C7: an ingestion whose API response holds no record ends without error and
\* leaves every partition file as it was.
C7_EmptyResponseWritesNothing ==
    [][ ( /\ lastOp'.op = "speech_file"
          /\ ~lastOp'.response.raised
          /\ Len(lastOp'.response.json) = 0 )
        => (lastOp'.result = "no_data" /\ files' = files)
      ]_vars

\* C7 witness: the ingestion ended on an empty response, the partition's earlier
\* file still there with its rows
C7_Witness ==
    /\ lastOp.op = "speech_file" /\ lastOp.result = "no_data"
    /\ files[lastOp.partition].exists
    /\ Len(files[lastOp.partition].rows) > 0

C9_DisjointWindows == Cardinality(output.value) <= 1

\* the fact rows the response of an ingestion stands for
DerivedRows(response, p) ==
    IF Len(response.json) = 0 THEN EmptyBag
    ELSE SeqToBag(select(Frames[response, p].rows, expected_cols))

\* C10: once an ingestion of p has completed and a speech_data load of p
\* completes after it, the fact rows of p are those of the response of that last
\* ingestion, none when it was empty.
C10_LoadReflectsLatestIngestion ==
    ( /\ lastOp.op = "speech_data"
      /\ lastOp.result \in {"loaded", "no_file"}
      /\ latest[lastOp.partition].ingested )
    => PartitionRows(speech_table.rows, lastOp.partition)
          = DerivedRows(latest[lastOp.partition].response, lastOp.partition)

====
